---------------------------- MODULE Spec2Model ----------------------------
(***************************************************************************)
(* Model of the Lite3 motion-host driver (HTTP -> UDP bridge):             *)
(*   src/iot_driver_copilot/绝影_lite_3_motion_host/driver.py              *)
(* One request is served at a time: the three handlers are `async def`     *)
(* coroutines that call the blocking send_udp_message on the event loop    *)
(* (Spec, FairSpec). EncSpec takes the encoding of command by itself,      *)
(* ConcSpec several calls of send_udp_message in progress at once.         *)
(* CamSpec is the IMU part and the shutdown of the depth-camera driver:    *)
(*   src/iot_driver_copilot/intel_real_sense_d_455/driver.py               *)
(***************************************************************************)
EXTENDS Integers, Sequences, FiniteSets, TLC

(***************************************************************************)
(* Bounds of the model.                                                    *)
(***************************************************************************)
\* number of requests served one after another
MaxRequests == 3

(***************************************************************************)
(* Bytes, byte strings and Python values.                                  *)
(***************************************************************************)
Byte == 0..255

RECURSIVE SumRange(_, _, _)
\* s[lo] + ... + s[hi], by halves
SumRange(s, lo, hi) ==
    IF lo > hi THEN 0
    ELSE IF lo = hi THEN s[lo]
    ELSE LET mid == (lo + hi) \div 2
         IN  SumRange(s, lo, mid) + SumRange(s, mid + 1, hi)

\* Python's sum(pkt) over a bytes object
SumBytes(s) == SumRange(s, 1, Len(s))

\* n zero bytes
Zeros(n) == [i \in 1..n |-> 0]

RECURSIVE Pow2(_)
Pow2(n) == IF n <= 0 THEN 1 ELSE 2 * Pow2(n - 1)

RECURSIVE Log2(_)
\* floor(log2(a)) for a >= 1
Log2(a) == IF a < 2 THEN 0 ELSE 1 + Log2(a \div 2)

HexDigits == <<"0", "1", "2", "3", "4", "5", "6", "7",
               "8", "9", "a", "b", "c", "d", "e", "f">>

\* bytes.hex(): two lower-case hex digits per byte
hex(s) ==
    [i \in 1..(2 * Len(s)) |->
        IF i % 2 = 1
        THEN HexDigits[(s[(i + 1) \div 2] \div 16) + 1]
        ELSE HexDigits[(s[i \div 2] % 16) + 1]]

\* data[:n] : what recvfrom(n) hands over of a datagram
Truncate(s, n) == IF Len(s) <= n THEN s ELSE SubSeq(s, 1, n)

\* A JSON value of the request: t is its JSON/Python type, v its value.
\* A "float" carries its value in quarters (v = 50 is 12.5); "bigfloat" is
\* 1e39, which exceeds the float32 range; "str" is the string "abc".
PV(t, v) == [t |-> t, v |-> v]
Absent == PV("absent", 0)

\* dict.get(key, default) on the params mapping
Get(params, key, default) ==
    IF params[key].t = "absent" THEN default ELSE params[key]

\* Result of an encoding step: bytes, or the exception it raised.
Ok(bytes) == [ok |-> TRUE, bytes |-> bytes, err |-> ""]
Raise(msg) == [ok |-> FALSE, bytes |-> <<>>, err |-> msg]

ErrUByte == "ubyte format requires 0 <= number <= 255"
ErrNotInt == "required argument is not an integer"
ErrFloatStr == "could not convert string to float: 'abc'"
ErrFloatType == "float() argument must be a string or a real number"
ErrFloatPack == "float too large to pack with f format"

\* variant of pack_B: the value is masked to a byte instead of range-checked
pack_B_masked(x) ==
    IF x.t = "bool" THEN Ok(<<x.v>>)
    ELSE IF x.t = "int" THEN Ok(<<x.v % 256>>)
         ELSE Raise(ErrNotInt)

\* struct.pack('<B', x)
pack_B(x) ==
    IF x.t = "bool" THEN Ok(<<x.v>>)
    ELSE IF x.t = "int"
         THEN IF x.v \in Byte THEN Ok(<<x.v>>) ELSE Raise(ErrUByte)
         ELSE Raise(ErrNotInt)

\* IEEE-754 binary32, little-endian, of the value q/4 (exact for |q| < 2^24)
Float32Bytes(q) ==
    IF q = 0 THEN <<0, 0, 0, 0>>
    ELSE LET a == IF q < 0 THEN -q ELSE q
             s == IF q < 0 THEN 1 ELSE 0
             e == Log2(a)
             ex == e - 2 + 127
             man == (a - Pow2(e)) * Pow2(23 - e)
         IN  << man % 256,
                (man \div 256) % 256,
                (ex % 2) * 128 + (man \div 65536),
                s * 128 + (ex \div 2) >>

\* float(x) followed by struct.pack('<f', ...)
pack_f(x) ==
    CASE x.t = "int" -> Ok(Float32Bytes(4 * x.v))
      [] x.t = "bool" -> Ok(Float32Bytes(4 * x.v))
      [] x.t = "float" -> Ok(Float32Bytes(x.v))
      [] x.t = "bigfloat" -> Raise(ErrFloatPack)
      [] x.t = "str" -> Raise(ErrFloatStr)
      [] OTHER -> Raise(ErrFloatType)

\* struct.unpack_from('<f', data, offset): the binary32 at 0-based offset
\* as sign, biased exponent and fraction
unpack_f(data, offset) ==
    LET b0 == data[offset + 1]
        b1 == data[offset + 2]
        b2 == data[offset + 3]
        b3 == data[offset + 4]
    IN  [neg |-> b3 >= 128,
         exp |-> (b3 % 128) * 2 + (b2 \div 128),
         man |-> (b2 % 128) * 65536 + b1 * 256 + b0]

\* struct.unpack_from('<nf', data, offset) as a list
unpack_nf(n, data, offset) ==
    [i \in 1..n |-> unpack_f(data, offset + 4 * (i - 1))]

\* struct.unpack_from('<B', data, offset)[0]
unpack_B(data, offset) == data[offset + 1]

(***************************************************************************)
(* Protocol constants and the packet codec.                                *)
(***************************************************************************)
COMMAND_HEADER == <<165, 90>>
STATE_REQUEST == <<165, 90, 1, 0>>
SENSOR_REQUEST == <<165, 90, 2, 0>>

\* the width parse_state requires
StateWidth == 2 + 1 + 12*4 + 12*4 + 3*4 + 1
\* the width parse_sensors requires
SensorWidth == 2 + 9*4 + 2*4 + 3*4

\* variant of parse_state: the fields are read from offset 0, the 2-byte
\* header not skipped
parse_state_unskipped(data) ==
    IF Len(data) < StateWidth
    THEN [raw |-> hex(data)]
    ELSE [posture |-> unpack_B(data, 0),
          joint_angles |-> unpack_nf(12, data, 1),
          joint_velocities |-> unpack_nf(12, data, 1 + 12*4),
          position |-> unpack_nf(3, data, 1 + 12*4 + 12*4),
          gait |-> unpack_B(data, 1 + 12*4 + 12*4 + 3*4)]

\* parse_state: the decoded record, or {"raw": data.hex()} when the length
\* check raises inside the try
parse_state(data) ==
    IF Len(data) < StateWidth
    THEN [raw |-> hex(data)]
    ELSE [posture |-> unpack_B(data, 2),
          joint_angles |-> unpack_nf(12, data, 2 + 1),
          joint_velocities |-> unpack_nf(12, data, 2 + 1 + 12*4),
          position |-> unpack_nf(3, data, 2 + 1 + 12*4 + 12*4),
          gait |-> unpack_B(data, 2 + 1 + 12*4 + 12*4 + 3*4)]

\* variant of parse_sensors: any length other than the schema width raises
parse_sensors_exact(data) ==
    IF Len(data) # SensorWidth
    THEN [raw |-> hex(data)]
    ELSE LET imu == unpack_nf(9, data, 2)
             battery == unpack_nf(2, data, 2 + 9*4)
             velocity == unpack_nf(3, data, 2 + 9*4 + 2*4)
         IN  [imu |-> [acc |-> SubSeq(imu, 1, 3),
                       gyro |-> SubSeq(imu, 4, 6),
                       mag |-> SubSeq(imu, 7, 9)],
              battery |-> [voltage |-> battery[1], level |-> battery[2]],
              velocity |-> [vx |-> velocity[1], vy |-> velocity[2],
                            vtheta |-> velocity[3]]]

\* parse_sensors: the decoded record, or {"raw": data.hex()}
parse_sensors(data) ==
    IF Len(data) < SensorWidth
    THEN [raw |-> hex(data)]
    ELSE LET imu == unpack_nf(9, data, 2)
             battery == unpack_nf(2, data, 2 + 9*4)
             velocity == unpack_nf(3, data, 2 + 9*4 + 2*4)
         IN  [imu |-> [acc |-> SubSeq(imu, 1, 3),
                       gyro |-> SubSeq(imu, 4, 6),
                       mag |-> SubSeq(imu, 7, 9)],
              battery |-> [voltage |-> battery[1], level |-> battery[2]],
              velocity |-> [vx |-> velocity[1], vy |-> velocity[2],
                            vtheta |-> velocity[3]]]

\* The "cmd" entry of the JSON payload: a string, or absent (None).
Cmd(name) == [t |-> "str", s |-> name]
NoCmd == [t |-> "absent", s |-> ""]
CmdIs(cmd, name) == cmd.t = "str" /\ cmd.s = name

\* variant of WithOpcode: every kind gets the opcode of state_change
WithOpcodeShared(opcode, packed) ==
    IF packed.ok THEN Ok(<<2>> \o packed.bytes) ELSE packed

\* b'\xNN' + struct.pack(...): the opcode before the packed parameters
WithOpcode(opcode, packed) ==
    IF packed.ok THEN Ok(<<opcode>> \o packed.bytes) ELSE packed

\* variant of pack_Bf: native alignment ('Bf' without '<') pads the byte to
\* the float's 4-byte boundary
pack_Bf_aligned(joint_id, angle) ==
    LET f == pack_f(angle)
        b == pack_B(joint_id)
    IN  IF ~f.ok /\ f.err # ErrFloatPack THEN f
        ELSE IF ~b.ok THEN b
        ELSE IF ~f.ok THEN f
        ELSE Ok(b.bytes \o <<0, 0, 0>> \o f.bytes)

\* struct.pack('<Bf', joint_id, angle) with angle = float(params.get(...)):
\* float() raises first, then the byte, then the float32 range
pack_Bf(joint_id, angle) ==
    LET f == pack_f(angle)
        b == pack_B(joint_id)
    IN  IF ~f.ok /\ f.err # ErrFloatPack THEN f
        ELSE IF ~b.ok THEN b
        ELSE IF ~f.ok THEN f
        ELSE Ok(b.bytes \o f.bytes)

\* variant of NoRecipe: the chain has no else branch, so the initial
\* body = b'' is framed and sent
NoRecipeEmptyBody == [known |-> TRUE, ok |-> TRUE, bytes |-> <<>>, err |-> ""]

\* the else branch of command's if/elif chain: no recipe, nothing to send
NoRecipe == [known |-> FALSE, ok |-> FALSE, bytes |-> <<>>, err |-> ""]

\* The if/elif chain of command: the body for the command kind, the
\* exception an encoding raised, or no recipe at all.
CommandBody(payload) ==
    LET cmd == payload.cmd
        params == payload.params
        zero == PV("int", 0)
        enc(r) == [known |-> TRUE, ok |-> r.ok, bytes |-> r.bytes, err |-> r.err]
    IN  CASE CmdIs(cmd, "heartbeat") -> enc(Ok(<<1>>))
          [] CmdIs(cmd, "state_change") ->
                enc(WithOpcode(2, pack_B(Get(params, "mode", zero))))
          [] CmdIs(cmd, "axis") ->
                enc(WithOpcode(3, pack_Bf(Get(params, "joint_id", zero),
                                          Get(params, "angle", zero))))
          [] CmdIs(cmd, "gait") ->
                enc(WithOpcode(4, pack_B(Get(params, "gait_id", zero))))
          [] CmdIs(cmd, "action") ->
                enc(WithOpcode(5, pack_B(Get(params, "action_id", zero))))
          [] OTHER -> NoRecipe

\* header + length byte + body
FramePrefix(body) ==
    LET n == pack_B(PV("int", Len(body)))
    IN  IF n.ok THEN Ok(COMMAND_HEADER \o n.bytes \o body) ELSE n

\* variant of Checksum: the sum leaves out the header and the length byte
ChecksumBodyOnly(pkt) == SumBytes(SubSeq(pkt, 4, Len(pkt))) % 256

\* sum(pkt) & 0xFF
Checksum(pkt) == SumBytes(pkt) % 256

\* pkt += struct.pack('<B', checksum)
Frame(body) ==
    LET p == FramePrefix(body)
    IN  IF p.ok THEN Ok(p.bytes \o <<Checksum(p.bytes)>>) ELSE p

\* command from the body of the request to the frame it hands to the transport:
\* the frame, the exception raised on the way, or no recipe
command_frame(p) ==
    LET b == CommandBody(p)
        f == Frame(b.bytes)
    IN  IF ~b.known \/ ~b.ok THEN b
        ELSE [known |-> TRUE, ok |-> f.ok, bytes |-> f.bytes, err |-> f.err]

(***************************************************************************)
(* Requests and device replies the model draws from.                       *)
(***************************************************************************)
NoParams ==
    [mode |-> Absent, joint_id |-> Absent, angle |-> Absent,
     gait_id |-> Absent, action_id |-> Absent]

\* values a one-byte parameter takes in a request
ByteParams ==
    {Absent, PV("int", -1), PV("int", 0), PV("int", 3), PV("int", 255),
     PV("int", 256), PV("bool", 1), PV("float", 14), PV("str", 0),
     PV("null", 0)}

\* values the angle takes in a request: 0, 12.5, -1.0, 0.25, 1e39, "abc", null
AngleParams ==
    {Absent, PV("int", 0), PV("float", 50), PV("float", -4), PV("float", 1),
     PV("bigfloat", 0), PV("str", 0), PV("null", 0)}

Payloads ==
    {[cmd |-> Cmd("heartbeat"), params |-> NoParams],
     [cmd |-> Cmd("dance"), params |-> NoParams],
     [cmd |-> NoCmd, params |-> NoParams]}
    \cup {[cmd |-> Cmd("state_change"), params |-> [NoParams EXCEPT !.mode = v]] :
            v \in ByteParams}
    \cup {[cmd |-> Cmd("axis"),
           params |-> [NoParams EXCEPT !.joint_id = j, !.angle = a]] :
            j \in ByteParams, a \in AngleParams}
    \cup {[cmd |-> Cmd("gait"), params |-> [NoParams EXCEPT !.gait_id = v]] :
            v \in ByteParams}
    \cup {[cmd |-> Cmd("action"), params |-> [NoParams EXCEPT !.action_id = v]] :
            v \in ByteParams}

NoPayload == [cmd |-> NoCmd, params |-> NoParams]

\* the ?type= query parameter of /sensors: None, or a string
Filters == {"", "imu", "battery", "velocity", "raw", "gps"}

\* 1.0, 0.25 and -1.0 as binary32
F32One == <<0, 0, 128, 63>>
F32Quarter == <<0, 0, 128, 62>>
F32MinusOne == <<0, 0, 128, 191>>

\* a state reply of the schema width: posture 1, zero floats, gait 2
StateReply == <<165, 90, 1>> \o Zeros(12*4 + 12*4 + 3*4) \o <<2>>
\* a sensor reply of the schema width: acc (1, 0.25, -1), battery (12.5, 1),
\* velocity (0.25, 0, -1), the other floats zero
SensorReply ==
    <<165, 90>> \o F32One \o F32Quarter \o F32MinusOne \o Zeros(6*4)
    \o <<0, 0, 72, 65>> \o F32One
    \o F32Quarter \o Zeros(4) \o F32MinusOne
\* an acknowledgement frame with its checksum, and with the checksum flipped
AckFrame == <<165, 90, 1, 1, 1>>
AckFlipped == <<165, 90, 1, 1, 254>>

\* 12.5, NaN and +Infinity as binary32
F32TwelveHalf == <<0, 0, 72, 65>>
F32NaN == <<0, 0, 192, 127>>
F32Inf == <<0, 0, 128, 127>>

\* a state reply with a different value in every field: posture 4,
\* joint_angles (1, 0, ..., 0, 0.25), joint_velocities (-1, 0, ..., 0, 12.5),
\* position (0.25, 1, -1), gait 9
StateReplyMixed ==
    <<165, 90, 4>>
    \o F32One \o Zeros(10*4) \o F32Quarter
    \o F32MinusOne \o Zeros(10*4) \o F32TwelveHalf
    \o F32Quarter \o F32One \o F32MinusOne
    \o <<9>>
\* a state reply of the schema width whose position x is NaN
StateReplyNaN ==
    <<165, 90, 1>> \o Zeros(12*4 + 12*4) \o F32NaN \o Zeros(2*4) \o <<2>>
\* a sensor reply of the schema width whose velocity vx is +Infinity
SensorReplyInf ==
    <<165, 90>> \o Zeros(9*4) \o F32TwelveHalf \o F32One
    \o F32Inf \o Zeros(2*4)

\* datagrams the device (or anyone) may deliver to the request's socket
Datagrams ==
    {<<>>, AckFrame, AckFlipped,
     StateReply, SubSeq(StateReply, 1, StateWidth - 1), StateReply \o <<7>>,
     StateReplyMixed, StateReplyNaN,
     SensorReply, SubSeq(SensorReply, 1, SensorWidth - 1), SensorReply \o <<7>>,
     SensorReplyInf}

\* payloads handed to send_udp_message by a direct caller
DirectPayloads == {STATE_REQUEST, AckFrame}

(***************************************************************************)
(* State.                                                                  *)
(***************************************************************************)
VARIABLES
    pc,            \* where the request being served is
    op,            \* the operation being served
    payload,       \* the JSON payload of POST /command
    type,          \* the type query parameter of GET /sensors
    pkt,           \* send_udp_message's payload argument
    expect_reply,  \* send_udp_message's expect_reply argument
    reply_size,    \* send_udp_message's reply_size argument
    sock,          \* the socket of this call: "none", "open", "closed"
    openSockets,   \* sockets of the process that are open
    sends,         \* sendto calls made for this request
    recvs,         \* recvfrom calls made for this request
    wire,          \* datagrams this request put on the network
    arrived,       \* what happened at the socket while recvfrom waited
    ret,           \* what send_udp_message returned or raised
    response,      \* the response of the handler
    served,        \* requests accepted so far
    memo           \* one earlier get_state exchange, kept for comparison

\* the state of the motion-host bridge
bridge == <<pc, op, payload, type, pkt, expect_reply, reply_size, sock,
            openSockets, sends, recvs, wire, arrived, ret, response, served,
            memo>>

\* transport results
Pending == [tag |-> "pending", data |-> <<>>, err |-> ""]
RetNone == [tag |-> "none", data |-> <<>>, err |-> ""]
RetData(d) == [tag |-> "data", data |-> d, err |-> ""]
RetRaise(msg) == [tag |-> "raise", data |-> <<>>, err |-> msg]

\* what happened at the socket while recvfrom waited: nothing yet, a
\* datagram arrived in time, or the timeout elapsed with none
NoDatagram == [some |-> FALSE, data |-> <<>>, elapsed |-> FALSE]
SomeDatagram(d) == [some |-> TRUE, data |-> d, elapsed |-> FALSE]
Elapsed == [some |-> FALSE, data |-> <<>>, elapsed |-> TRUE]

\* JSONResponse(content, status_code)
JSONResponse(content, status_code) == [code |-> status_code, json |-> content]
NoResponse == [code |-> 0, json |-> [pending |-> TRUE]]

(***************************************************************************)
(* Two requests whose frames are compared (the encoding taken by itself).  *)
(***************************************************************************)
VARIABLES
    reqs,          \* the two JSON bodies posted to /command
    frames         \* what command builds for each of them

encoding == <<reqs, frames>>

\* no pair of requests is being compared
EncodingIdle == reqs = <<>> /\ frames = <<>>

(***************************************************************************)
(* Calls of send_udp_message in progress at the same time.                 *)
(***************************************************************************)
VARIABLES
    calls,         \* per caller: where it is in send_udp_message, its sock,
                   \* and the datagram recvfrom gave it
    sockets,       \* per socket ever created: unbound, bound or closed
    inbox,         \* per socket: the datagrams queued on it
    deliveredTo    \* per datagram delivered so far: the socket it went to

concurrent == <<calls, sockets, inbox, deliveredTo>>

NoCall == [pc |-> "idle", sock |-> 0, got |-> [some |-> FALSE, id |-> 0, data |-> <<>>]]

\* no call of send_udp_message has been made
ConcurrentIdle ==
    /\ calls = <<>>
    /\ sockets = <<>>
    /\ inbox = <<>>
    /\ deliveredTo = <<>>

(***************************************************************************)
(* The depth-camera driver: the IMU listener thread, the /imu handlers and *)
(* the shutdown of the process.                                            *)
(***************************************************************************)
VARIABLES
    imu_data,      \* accel and gyro: the timestamp of the latest value, 0 = None
    imu_lock,      \* the thread holding the lock: 0 the listener, h the
                   \* handler h, -1 none
    imu_running,
    imu_thread,    \* imu_listener: where it is, and the frames it iterates over
    requests,      \* per /imu handler thread: where it is, and its local data
    main,          \* the main thread: serving, or in a run of cleanup
    pipeline,      \* started or stopped
    stamp,         \* timestamp of the latest motion frames
    stopCalls,     \* how often pipeline.stop() has been invoked
    stoppedUnder   \* the listener has called wait_for_frames() on a stopped
                   \* pipeline

camera == <<imu_data, imu_lock, imu_running, imu_thread, requests, main,
            pipeline, stamp, stopCalls, stoppedUnder>>

\* the camera driver is not running
CameraIdle ==
    /\ imu_data = <<>>
    /\ imu_lock = -1
    /\ imu_running = FALSE
    /\ imu_thread = <<>>
    /\ requests = <<>>
    /\ main = <<>>
    /\ pipeline = "none"
    /\ stamp = 0
    /\ stopCalls = 0
    /\ stoppedUnder = FALSE

\* the state outside the bridge's request handling
others == <<encoding, concurrent, camera>>

\* history of one get_state exchange: armed and nothing remembered yet, never
\* armed, and the remembered exchange of request n
NoMemo ==
    [armed |-> TRUE, some |-> FALSE, served |-> 0, data |-> <<>>,
     response |-> NoResponse]
MemoOff ==
    [armed |-> FALSE, some |-> FALSE, served |-> 0, data |-> <<>>,
     response |-> NoResponse]
Memo(n, d, r) ==
    [armed |-> FALSE, some |-> TRUE, served |-> n, data |-> d, response |-> r]

BridgeInit ==
    /\ pc = "idle"
    /\ op = "none"
    /\ payload = NoPayload
    /\ type = ""
    /\ pkt = <<>>
    /\ expect_reply = TRUE
    /\ reply_size = 1024
    /\ sock = "none"
    /\ openSockets = 0
    /\ sends = 0
    /\ recvs = 0
    /\ wire = <<>>
    /\ arrived = NoDatagram
    /\ ret = Pending
    /\ response = NoResponse
    /\ served = 0
    /\ memo \in {NoMemo, MemoOff}

Init == BridgeInit /\ EncodingIdle /\ ConcurrentIdle /\ CameraIdle

(***************************************************************************)
(* The handlers after send_udp_message has returned or raised.             *)
(***************************************************************************)
\* an exception no handler catches: the framework answers 500
Unhandled(err) == [code |-> 500, json |-> [exception |-> err]]

\* command, from the return of send_udp_message on
command_reply(p, r) ==
    CASE r.tag = "raise" -> JSONResponse([error |-> r.err], 500)
      [] r.tag = "none" ->
            JSONResponse([status |-> "timeout", sent |-> hex(p)], 504)
      [] OTHER ->
            JSONResponse([status |-> "ok", sent |-> hex(p),
                          reply |-> hex(r.data)], 200)

ErrNotJson == "Out of range float values are not JSON compliant"

\* the floats of a list are finite (neither NaN nor an infinity)
FiniteList(s) == \A i \in DOMAIN s : s[i].exp # 255

\* the floats under key k of a decoded record are finite
FiniteField(k, v) ==
    CASE k \in {"joint_angles", "joint_velocities", "position"} -> FiniteList(v)
      [] k = "imu" -> FiniteList(v.acc) /\ FiniteList(v.gyro) /\ FiniteList(v.mag)
      [] k = "battery" -> v.voltage.exp # 255 /\ v.level.exp # 255
      [] k = "velocity" -> v.vx.exp # 255 /\ v.vy.exp # 255 /\ v.vtheta.exp # 255
      [] OTHER -> TRUE

\* JSONResponse(content) of a decoded record: rendering (json.dumps with
\* allow_nan=False) raises ValueError in the handler for a NaN or an infinity
RenderDecoded(content) ==
    IF \A k \in DOMAIN content : FiniteField(k, content[k])
    THEN JSONResponse(content, 200)
    ELSE Unhandled(ErrNotJson)

\* variant of get_state_reply: the answer carries the number of the request
get_state_reply_numbered(r) ==
    CASE r.tag = "raise" -> Unhandled(r.err)
      [] r.tag = "none" -> JSONResponse([error |-> "timeout"], 504)
      [] OTHER ->
            LET state == parse_state(r.data)
            IN  IF "raw" \in DOMAIN state
                THEN RenderDecoded([raw |-> state.raw, seq |-> served])
                ELSE RenderDecoded(state)

\* get_state, from the return of send_udp_message on
get_state_reply(r) ==
    CASE r.tag = "raise" -> Unhandled(r.err)
      [] r.tag = "none" -> JSONResponse([error |-> "timeout"], 504)
      [] OTHER -> RenderDecoded(parse_state(r.data))

\* variant of get_sensors_reply: the type filter is ignored
get_sensors_reply_unfiltered(t, r) ==
    CASE r.tag = "raise" -> Unhandled(r.err)
      [] r.tag = "none" -> JSONResponse([error |-> "timeout"], 504)
      [] OTHER -> RenderDecoded(parse_sensors(r.data))

\* get_sensors, from the return of send_udp_message on
get_sensors_reply(t, r) ==
    CASE r.tag = "raise" -> Unhandled(r.err)
      [] r.tag = "none" -> JSONResponse([error |-> "timeout"], 504)
      [] OTHER ->
            LET sensors == parse_sensors(r.data)
            IN  IF t # "" /\ t \in DOMAIN sensors
                THEN RenderDecoded([k \in {t} |-> sensors[t]])
                ELSE RenderDecoded(sensors)

\* a direct caller of send_udp_message keeps what it returned
direct_reply(r) == [code |-> 0, json |-> [returned |-> r]]

(***************************************************************************)
(* Actions.                                                                *)
(***************************************************************************)
\* a new request is accepted when none is being served
Accepting == pc \in {"idle", "done"} /\ served < MaxRequests

\* the fields of a request as it is accepted
Fresh ==
    /\ sock' = "none"
    /\ sends' = 0
    /\ recvs' = 0
    /\ wire' = <<>>
    /\ arrived' = NoDatagram
    /\ ret' = Pending
    /\ response' = NoResponse
    /\ served' = served + 1
    /\ UNCHANGED <<openSockets, memo, others>>

\* POST /command arrives with a JSON payload
PostCommand ==
    /\ Accepting
    /\ \E p \in Payloads : payload' = p
    /\ op' = "command"
    /\ pc' = "encode"
    /\ type' = ""
    /\ pkt' = <<>>
    /\ expect_reply' = TRUE
    /\ reply_size' = 1024
    /\ Fresh

\* command up to its call of send_udp_message: build the body and the frame
\* and call, or answer 400 for an unknown command, or 500 for an exception
CommandEncode ==
    /\ pc = "encode"
    /\ \E b \in {CommandBody(payload)} : \E f \in {Frame(b.bytes)} :
           IF ~b.known
           THEN /\ response' =
                      JSONResponse([error |-> "Unknown command type"], 400)
                /\ pc' = "done"
                /\ UNCHANGED <<pkt, expect_reply, reply_size>>
           ELSE IF ~b.ok \/ ~f.ok
           THEN /\ response' =
                      JSONResponse([error |-> IF b.ok THEN f.err ELSE b.err], 500)
                /\ pc' = "done"
                /\ UNCHANGED <<pkt, expect_reply, reply_size>>
           ELSE /\ pkt' = f.bytes
                /\ expect_reply' = TRUE
                /\ reply_size' = 256
                /\ pc' = "socket"
                /\ UNCHANGED response
    /\ UNCHANGED <<others, memo, op, payload, type, sock, openSockets, sends, recvs, wire,
                   arrived, ret, served>>

\* GET /state arrives: get_state calls send_udp_message(STATE_REQUEST)
GetState ==
    /\ Accepting
    /\ op' = "get_state"
    /\ pc' = "socket"
    /\ payload' = NoPayload
    /\ type' = ""
    /\ pkt' = STATE_REQUEST
    /\ expect_reply' = TRUE
    /\ reply_size' = 512
    /\ Fresh

\* GET /sensors arrives: get_sensors calls send_udp_message(SENSOR_REQUEST)
GetSensors ==
    /\ Accepting
    /\ \E t \in Filters : type' = t
    /\ op' = "get_sensors"
    /\ pc' = "socket"
    /\ payload' = NoPayload
    /\ pkt' = SENSOR_REQUEST
    /\ expect_reply' = TRUE
    /\ reply_size' = 512
    /\ Fresh

\* send_udp_message is called directly, with or without a reply expected
DirectCall ==
    /\ Accepting
    /\ \E p \in DirectPayloads : pkt' = p
    /\ \E e \in BOOLEAN : expect_reply' = e
    /\ op' = "send_udp_message"
    /\ pc' = "socket"
    /\ payload' = NoPayload
    /\ type' = ""
    /\ reply_size' = 1024
    /\ Fresh

\* socket.socket(...) and settimeout: the with statement acquires the
\* socket, or socket() raises OSError and there is nothing to release
SocketOpen ==
    /\ pc = "socket"
    /\ \/ /\ sock' = "open"
          /\ openSockets' = openSockets + 1
          /\ pc' = "sendto"
          /\ UNCHANGED ret
       \/ /\ ret' = RetRaise("OSError: socket")
          /\ pc' = "return"
          /\ UNCHANGED <<sock, openSockets>>
    /\ UNCHANGED <<others, memo, op, payload, type, pkt, expect_reply, reply_size, sends,
                   recvs, wire, arrived, response, served>>

\* sock.sendto(payload, ...), then the early return when no reply is
\* expected; sendto may raise OSError
SendTo ==
    /\ pc = "sendto"
    /\ sends' = sends + 1
    /\ \/ /\ wire' = Append(wire, pkt)
          /\ IF expect_reply
             THEN pc' = "recvfrom" /\ UNCHANGED ret
             ELSE pc' = "exit" /\ ret' = RetNone
       \/ /\ ret' = RetRaise("OSError: sendto")
          /\ pc' = "exit"
          /\ UNCHANGED wire
    /\ UNCHANGED <<others, memo, op, payload, type, pkt, expect_reply, reply_size, sock,
                   openSockets, recvs, arrived, response, served>>

\* variant of Received: empty data is taken for no reply
ReceivedFalsy(d, size) ==
    IF d = <<>> THEN RetNone ELSE RetData(Truncate(d, size))

\* what recvfrom's data becomes of send_udp_message's result
Received(d, size) == RetData(Truncate(d, size))

\* what the except socket.timeout clause returns
TimedOut == RetNone

\* sock.recvfrom(reply_size) under the timeout: a datagram arrives in time,
\* or socket.timeout is raised and caught, or another OSError is raised
RecvFrom ==
    /\ pc = "recvfrom"
    /\ recvs' = recvs + 1
    /\ \/ \E d \in Datagrams :
             /\ arrived' = SomeDatagram(d)
             /\ ret' = Received(d, reply_size)
       \/ /\ arrived' = Elapsed
          /\ ret' = TimedOut
       \/ /\ arrived' = NoDatagram
          /\ ret' = RetRaise("OSError: recvfrom")
    /\ pc' = "exit"
    /\ UNCHANGED <<others, memo, op, payload, type, pkt, expect_reply, reply_size, sock,
                   openSockets, sends, wire, response, served>>

\* variant of Exit: the socket is closed by a close() call at the end of the
\* function, which an exception skips
ExitUnlessRaised ==
    /\ pc = "exit"
    /\ IF ret.tag = "raise"
       THEN UNCHANGED <<sock, openSockets>>
       ELSE sock' = "closed" /\ openSockets' = openSockets - 1
    /\ pc' = "return"
    /\ UNCHANGED <<others, memo, op, payload, type, pkt, expect_reply, reply_size, sends,
                   recvs, wire, arrived, ret, response, served>>

\* leaving the with block, by return or by exception: the socket is closed
Exit ==
    /\ pc = "exit"
    /\ sock' = "closed"
    /\ openSockets' = openSockets - 1
    /\ pc' = "return"
    /\ UNCHANGED <<others, memo, op, payload, type, pkt, expect_reply, reply_size, sends,
                   recvs, wire, arrived, ret, response, served>>

\* the response the caller of send_udp_message builds
Reply ==
    CASE op = "command" -> command_reply(pkt, ret)
      [] op = "get_state" -> get_state_reply(ret)
      [] op = "get_sensors" -> get_sensors_reply(type, ret)
      [] OTHER -> direct_reply(ret)

\* variant of Return: a timed-out exchange is tried once more
ReturnRetry ==
    /\ pc = "return"
    /\ IF ret.tag = "none" /\ expect_reply /\ sends < 2
       THEN pc' = "socket" /\ UNCHANGED response
       ELSE pc' = "done" /\ response' = Reply
    /\ UNCHANGED <<others, memo, op, payload, type, pkt, expect_reply, reply_size, sock,
                   openSockets, sends, recvs, wire, arrived, ret, served>>

\* the history once the caller has answered r: as it was, or (while armed)
\* this exchange if it is a get_state that received bytes
Remembered(r) ==
    IF memo.armed /\ op = "get_state" /\ ret.tag = "data"
    THEN {memo, Memo(served, ret.data, r)}
    ELSE {memo}

\* send_udp_message returns or raises to its caller, which answers
Return ==
    /\ pc = "return"
    /\ \E r \in {Reply} :
          /\ response' = r
          /\ \E k \in Remembered(r) : memo' = k
    /\ pc' = "done"
    /\ UNCHANGED <<others, op, payload, type, pkt, expect_reply, reply_size, sock,
                   openSockets, sends, recvs, wire, arrived, ret, served>>

Next ==
    \/ PostCommand
    \/ CommandEncode
    \/ GetState
    \/ GetSensors
    \/ DirectCall
    \/ SocketOpen
    \/ SendTo
    \/ RecvFrom
    \/ Exit
    \/ Return

vars == <<bridge, others>>

Spec == Init /\ [][Next]_vars

\* the steps of a request that has been accepted
Step == CommandEncode \/ SocketOpen \/ SendTo \/ RecvFrom \/ Exit \/ Return

\* no request yet, and no exchange is going to be remembered
FairInit == Init /\ memo = MemoOff

\* an accepted request keeps running: sendto and recvfrom block for at most
\* UDP_TIMEOUT (settimeout) and the handler runs on to its return
FairSpec == FairInit /\ [][Next]_vars /\ WF_vars(Step)

(***************************************************************************)
(* Properties.                                                             *)
(***************************************************************************)
\* the command kinds that have a recipe
RecipeKinds == {"heartbeat", "state_change", "axis", "gait", "action"}

\* the request being served is a command of kind k
IsCommand(k) == op = "command" /\ CmdIs(payload.cmd, k)

\* command has encoded its frame and called the transport
Encoded == op = "command" /\ pc \notin {"idle", "encode"} /\ pkt # <<>>

\* the handler has answered one of the three bridge operations
Answered == pc = "done" /\ op \in {"command", "get_state", "get_sensors"}

\* the trailing byte of d is not the 8-bit sum of the bytes before it
ChecksumFails(d) ==
    Len(d) >= 1 /\ d[Len(d)] # SumBytes(SubSeq(d, 1, Len(d) - 1)) % 256

\* the schema width of the operation's reply
WidthOf(o) == IF o = "get_state" THEN StateWidth ELSE SensorWidth

\* C1: every frame command hands to the transport, and every datagram it
\* puts on the network, is A5 5A, a length byte equal to the length of the
\* body, the body of the command kind, and the sum of all bytes before it
\* mod 256; the body is at most 255 bytes long.
C1_FrameShape ==
    Encoded =>
        LET n == Len(pkt)
            body == SubSeq(pkt, 4, n - 1)
        IN  /\ n >= 5
            /\ pkt[1] = 165 /\ pkt[2] = 90
            /\ pkt[3] = Len(body) /\ Len(body) <= 255
            /\ body = CommandBody(payload).bytes
            /\ pkt[n] = (165 + 90 + pkt[3] + SumBytes(body)) % 256
            /\ \A i \in 1..n : pkt[i] \in Byte
            /\ \A i \in 1..Len(wire) : wire[i] = pkt

\* C1 witness: axis with joint_id 3 and angle 12.5 is on the network as
\* A5 5A 06 03 03 00 00 48 41 94
C1_Witness ==
    /\ IsCommand("axis")
    /\ payload.params.joint_id = PV("int", 3)
    /\ payload.params.angle = PV("float", 50)
    /\ wire = << <<165, 90, 6, 3, 3, 0, 0, 72, 65, 148>> >>

\* C2 (as claimed): a state or sensor reply shorter than the schema width
\* yields a failure outcome, never a success-shaped or substitute value.
C2_ShortReplyFails ==
    (/\ pc = "done" /\ op \in {"get_state", "get_sensors"}
     /\ ret.tag = "data" /\ Len(ret.data) < WidthOf(op))
        => /\ response.code # 200
           /\ "raw" \notin DOMAIN response.json

\* C3 (as claimed): a reply whose trailing byte is not the 8-bit sum of the
\* bytes before it is rejected: the outcome is a failure and nothing of the
\* frame is returned to the caller.
C3_ChecksumVerified ==
    (Answered /\ ret.tag = "data" /\ ChecksumFails(ret.data))
        => response.code # 200

\* C4: the socket of a transport call is open only between its creation
\* and the exit of the with block; once the call has returned or raised,
\* and whenever no call is in progress, no socket is open.
C4_SocketReleased ==
    /\ openSockets = (IF pc \in {"sendto", "recvfrom", "exit"} THEN 1 ELSE 0)
    /\ (sock = "open") = (pc \in {"sendto", "recvfrom", "exit"})
    /\ (pc \in {"return", "done"} /\ sends > 0) => sock = "closed"

\* C4 witness: recvfrom raised, the call has left the with block and the
\* socket is closed
C4_Witness ==
    /\ pc = "return"
    /\ ret = RetRaise("OSError: recvfrom")
    /\ sock = "closed"
    /\ openSockets = 0

\* C5 (state part): once recvfrom has been called, send_udp_message's result
\* is None exactly when the timeout elapsed with no datagram, and is the
\* datagram (an empty one included) when one arrived in time; the three
\* operations answer 504 exactly for that timeout and 200 for a datagram.
C5_Outcome ==
    /\ (recvs = 1 /\ pc \in {"exit", "return", "done"}) =>
          /\ (ret = RetNone) = arrived.elapsed
          /\ arrived.some => ret = RetData(arrived.data)
    /\ (Answered /\ recvs = 1) =>
          /\ (response.code = 504) = arrived.elapsed
          /\ arrived.some => response.code \in {200, 500}
          /\ (arrived.some /\ response.code = 500) =>
                response = Unhandled(ErrNotJson)
          /\ arrived.elapsed =>
                \/ op = "command" /\ response.json.status = "timeout"
                \/ op # "command" /\ response.json = [error |-> "timeout"]

\* C5: every call of send_udp_message ends and its caller answers; its
\* result is the timeout exactly when no datagram arrived before the
\* timeout elapsed, and the received bytes otherwise.
C5_TimeoutIff == [](C5_Outcome) /\ ((pc = "socket") ~> (pc = "done"))

\* C5 witness: a zero-length datagram arrived in time and get_state answers
\* with it, not with a timeout
C5_Witness ==
    /\ pc = "done" /\ op = "get_state"
    /\ arrived = SomeDatagram(<<>>)
    /\ ret = RetData(<<>>)
    /\ response = JSONResponse([raw |-> <<>>], 200)

\* C6: a request calls sendto at most once and recvfrom at most once, never
\* again after a timeout or an undecodable reply; a call that returned made
\* exactly one send, and one receive only if a reply was expected.
C6_OneExchange ==
    /\ sends <= 1 /\ recvs <= 1
    /\ Len(wire) <= sends /\ recvs <= Len(wire)
    /\ pc = "recvfrom" => (sends = 1 /\ recvs = 0)
    /\ (pc \in {"return", "done"} /\ ret.tag \in {"none", "data"}) =>
          /\ sends = 1 /\ Len(wire) = 1
          /\ recvs = (IF expect_reply THEN 1 ELSE 0)
    /\ (pc \in {"return", "done"} /\ ret.tag = "raise") => Len(wire) + recvs <= 2

\* C6 witness: the request timed out and has ended after one send and one
\* receive
C6_Witness ==
    /\ pc = "done" /\ op = "get_sensors"
    /\ response = JSONResponse([error |-> "timeout"], 504)
    /\ sends = 1 /\ recvs = 1 /\ wire = <<SENSOR_REQUEST>>

\* C7: a command whose kind is not in the recipe table (or is absent) is
\* answered with the unknown-command error and nothing is sent.
C7_UnknownCommand ==
    (/\ op = "command" /\ pc # "encode"
     /\ ~(payload.cmd.t = "str" /\ payload.cmd.s \in RecipeKinds))
        => /\ pc = "done"
           /\ response = JSONResponse([error |-> "Unknown command type"], 400)
           /\ sends = 0 /\ wire = <<>> /\ sock = "none" /\ pkt = <<>>

\* C7 witness: a payload without "cmd" has been answered 400, nothing sent
C7_Witness ==
    /\ pc = "done" /\ op = "command" /\ payload.cmd = NoCmd
    /\ response.code = 400
    /\ wire = <<>>

\* a parameter the command kind takes is absent from the request
RequiredAbsent ==
    \/ IsCommand("state_change") /\ payload.params.mode = Absent
    \/ IsCommand("axis") /\ (payload.params.joint_id = Absent
                             \/ payload.params.angle = Absent)
    \/ IsCommand("gait") /\ payload.params.gait_id = Absent
    \/ IsCommand("action") /\ payload.params.action_id = Absent

\* C8 (as claimed): a command with a required parameter absent fails and
\* nothing is sent to the device.
C8_MissingParameter ==
    (op = "command" /\ pc # "encode" /\ RequiredAbsent)
        => /\ pc = "done"
           /\ response.code # 200
           /\ sends = 0 /\ wire = <<>>

\* an integer that does not fit the one-byte field
OutOfByte(v) == v.t = "int" /\ v.v \notin 0..255

\* a one-byte parameter of the command is an integer outside 0..255
RangeViolation ==
    \/ IsCommand("state_change") /\ OutOfByte(payload.params.mode)
    \/ IsCommand("axis") /\ OutOfByte(payload.params.joint_id)
    \/ IsCommand("gait") /\ OutOfByte(payload.params.gait_id)
    \/ IsCommand("action") /\ OutOfByte(payload.params.action_id)

\* The driver declares no enumeration of gait or action ids. Any declared
\* enumeration is a proper part of the byte range; id 255 stands for an id
\* that fits the byte and lies outside it.
EnumViolation ==
    \/ IsCommand("gait") /\ payload.params.gait_id = PV("int", 255)
    \/ IsCommand("action") /\ payload.params.action_id = PV("int", 255)

\* the command failed while encoding: error answer, no socket, nothing sent
Rejected ==
    /\ pc = "done"
    /\ response.code = 500 /\ DOMAIN response.json = {"error"}
    /\ sends = 0 /\ wire = <<>> /\ sock = "none"

SensorFields == {"imu", "battery", "velocity"}

C12_NeverRaises ==
    (/\ pc = "done" /\ op \in {"get_state", "get_sensors"} /\ ret.tag = "data")
        => /\ "exception" \notin DOMAIN response.json
           /\ (Len(ret.data) < WidthOf(op) \/ ChecksumFails(ret.data))
                 => response.code # 200

(****************************************************************)
(* C16: opcode and body width of each command kind               *)
(****************************************************************)

\* the parameter of the request under key k, 0 when absent, as a number
ParamByte(k) == Get(payload.params, k, PV("int", 0)).v

\* the angles the requests carry, as binary32 little-endian
AngleBytes(a) ==
    CASE a.t = "float" /\ a.v = 50 -> <<0, 0, 72, 65>>
      [] a.t = "float" /\ a.v = -4 -> <<0, 0, 128, 191>>
      [] a.t = "float" /\ a.v = 1 -> <<0, 0, 128, 62>>
      [] OTHER -> <<0, 0, 0, 0>>

\* C16: the body of every encoded frame is the opcode of its kind followed by
\* that kind's parameters: heartbeat 01; state_change 02 mode; axis 03
\* joint_id and the angle as 4 bytes little-endian float32, 6 bytes with no
\* padding; gait 04 gait_id; action 05 action_id. For axis the frame starts
\* A5 5A 06 03 joint_id.
C16_RecipeTable ==
    Encoded =>
        LET body == SubSeq(pkt, 4, Len(pkt) - 1)
        IN  /\ IsCommand("heartbeat") => body = <<1>>
            /\ IsCommand("state_change") => body = <<2, ParamByte("mode")>>
            /\ IsCommand("axis") =>
                  /\ body = <<3, ParamByte("joint_id")>>
                              \o AngleBytes(payload.params.angle)
                  /\ SubSeq(pkt, 1, 5) = <<165, 90, 6, 3, ParamByte("joint_id")>>
                  /\ Len(pkt) = 10
            /\ IsCommand("gait") => body = <<4, ParamByte("gait_id")>>
            /\ IsCommand("action") => body = <<5, ParamByte("action_id")>>

\* C16 witness: axis with joint_id 3 and angle 12.5 has been sent as
\* A5 5A 06 03 03 00 00 48 41 and the checksum 0x94, and the device answered
C16_Witness ==
    /\ pc = "done" /\ IsCommand("axis")
    /\ payload.params.joint_id = PV("int", 3)
    /\ payload.params.angle = PV("float", 50)
    /\ pkt = <<165, 90, 6, 3, 3, 0, 0, 72, 65, 148>>
    /\ wire = <<pkt>>
    /\ response.code = 200

(****************************************************************)
(* C17: the offsets parse_state reads                            *)
(****************************************************************)

\* the binary32 held in bytes first..first+3 of d, bytes counted from 0
FloatAt(d, first) ==
    [neg |-> d[first + 4] >= 128,
     exp |-> (d[first + 4] % 128) * 2 + d[first + 3] \div 128,
     man |-> (d[first + 3] % 128) * 65536 + d[first + 2] * 256 + d[first + 1]]

FloatZero == [neg |-> FALSE, exp |-> 0, man |-> 0]

\* C17: for a state reply of the schema width get_state decodes posture from
\* byte 2, the 12 joint angles from bytes 3..50, the 12 joint velocities from
\* bytes 51..98, the position from bytes 99..110 and gait from byte 111
\* (bytes counted from 0); posture 1, zero floats and gait 2 decode to posture
\* 1, twelve zero angles, twelve zero velocities, position (0, 0, 0), gait 2.
C17_FixedOffsets ==
    (/\ pc = "done" /\ op = "get_state"
     /\ ret.tag = "data" /\ Len(ret.data) = StateWidth)
        => LET d == ret.data
               s == parse_state(d)
           IN  /\ DOMAIN s = {"posture", "joint_angles", "joint_velocities",
                              "position", "gait"}
               /\ s.posture = d[2 + 1]
               /\ DOMAIN s.joint_angles = 1..12
               /\ \A i \in 1..12 :
                     s.joint_angles[i] = FloatAt(d, 3 + 4 * (i - 1))
               /\ DOMAIN s.joint_velocities = 1..12
               /\ \A i \in 1..12 :
                     s.joint_velocities[i] = FloatAt(d, 51 + 4 * (i - 1))
               /\ DOMAIN s.position = 1..3
               /\ \A i \in 1..3 : s.position[i] = FloatAt(d, 99 + 4 * (i - 1))
               /\ s.gait = d[111 + 1]
               /\ (\A k \in DOMAIN s : FiniteField(k, s[k]))
                     => response = JSONResponse(s, 200)
               /\ d = StateReply =>
                     response.json =
                        [posture |-> 1,
                         joint_angles |-> [i \in 1..12 |-> FloatZero],
                         joint_velocities |-> [i \in 1..12 |-> FloatZero],
                         position |-> [i \in 1..3 |-> FloatZero],
                         gait |-> 2]

\* C17 witness: get_state received the 112 bytes with posture 4, angles
\* (1, 0, ..., 0.25), velocities (-1, 0, ..., 12.5), position (0.25, 1, -1)
\* and gait 9, and answered them field by field
C17_Witness ==
    /\ pc = "done" /\ op = "get_state" /\ ret = RetData(StateReplyMixed)
    /\ response.code = 200
    /\ response.json.posture = 4 /\ response.json.gait = 9
    /\ response.json.joint_angles[12] = FloatAt(F32Quarter, 0)
    /\ response.json.joint_velocities[1] = FloatAt(F32MinusOne, 0)
    /\ response.json.position[2] = FloatAt(F32One, 0)

(****************************************************************)
(* C18: replies shorter and longer than the schema width         *)
(****************************************************************)

\* the parser of the operation
ParserOf(o, d) == IF o = "get_state" THEN parse_state(d) ELSE parse_sensors(d)

\* the keys of a decoded StateRecord or SensorRecord
RecordKeys ==
    {"posture", "joint_angles", "joint_velocities", "position", "gait",
     "imu", "battery", "velocity"}

\* C18 (as claimed): a reply whose length differs from the schema width, longer
\* as well as shorter, is not decoded: no field of a record is returned.
C18_ExactLength ==
    (/\ pc = "done" /\ op \in {"get_state", "get_sensors"}
     /\ ret.tag = "data" /\ Len(ret.data) # WidthOf(op))
        => DOMAIN response.json \cap RecordKeys = {}

\* C18 (amended): only a reply shorter than the schema width is not decoded
\* (it is answered by its hex dump); a reply of at least the schema width is
\* decoded exactly as its first 112 (58) bytes are, the trailing bytes ignored.
C18_ShorterOnly ==
    (/\ pc = "done" /\ op \in {"get_state", "get_sensors"} /\ ret.tag = "data")
        => LET d == ret.data
               w == WidthOf(op)
           IN  IF Len(d) < w
               THEN response = JSONResponse([raw |-> hex(d)], 200)
               ELSE /\ ParserOf(op, d) = ParserOf(op, SubSeq(d, 1, w))
                    /\ DOMAIN ParserOf(op, d) \subseteq RecordKeys
                    /\ \/ response = Unhandled(ErrNotJson)
                       \/ /\ response.code = 200
                          /\ DOMAIN response.json # {}
                          /\ \A k \in DOMAIN response.json :
                                /\ k \in DOMAIN ParserOf(op, d)
                                /\ response.json[k] =
                                      ParserOf(op, SubSeq(d, 1, w))[k]

\* C18 witness: get_sensors received 59 bytes, the 58-byte reply and one more,
\* and answered the record of the 58
C18_Witness ==
    /\ pc = "done" /\ op = "get_sensors" /\ type = ""
    /\ ret = RetData(SensorReply \o <<7>>)
    /\ response = JSONResponse(parse_sensors(SensorReply), 200)
    /\ response.json.battery.voltage = FloatAt(F32TwelveHalf, 0)

(****************************************************************)
(* send_udp_message called by several callers at once.           *)
(****************************************************************)
NumCallers == 2
MaxSockets == 3
MaxDeliveries == 2

Callers == 1..NumCallers

\* datagrams that may arrive on a bound socket
ConcDatagrams == {<<>>, AckFrame}

ConcInit ==
    /\ BridgeInit /\ memo = MemoOff
    /\ EncodingIdle /\ CameraIdle
    /\ calls = [w \in Callers |-> NoCall]
    /\ sockets = <<>>
    /\ inbox = <<>>
    /\ deliveredTo = <<>>

\* variant of NewSocket: one module-level socket that every call uses
SharedSocket(created) == 1

\* socket.socket(...): a socket that is none of those created so far
NewSocket(created) == Len(created) + 1

\* with socket.socket(...) as sock; sock.settimeout(UDP_TIMEOUT)
CallSocket(w) ==
    /\ calls[w].pc \in {"idle", "done"}
    /\ Len(sockets) < MaxSockets
    /\ \E s \in {NewSocket(sockets)} :
          /\ calls' = [calls EXCEPT ![w] = [NoCall EXCEPT !.pc = "sendto",
                                                         !.sock = s]]
          /\ sockets' =
                [i \in 1..(Len(sockets) + 1) |->
                    IF i = s THEN "unbound"
                    ELSE IF i \in DOMAIN sockets THEN sockets[i] ELSE "unbound"]
          /\ inbox' =
                [i \in 1..(Len(inbox) + 1) |->
                    IF i = s \/ i \notin DOMAIN inbox THEN <<>> ELSE inbox[i]]
    /\ UNCHANGED <<deliveredTo, bridge, encoding, camera>>

\* sock.sendto(payload, ...): the socket gets its ephemeral port
CallSendTo(w) ==
    /\ calls[w].pc = "sendto"
    /\ calls' = [calls EXCEPT ![w].pc = "recvfrom"]
    /\ sockets' = [sockets EXCEPT ![calls[w].sock] = "bound"]
    /\ UNCHANGED <<inbox, deliveredTo, bridge, encoding, camera>>

\* the device, or anyone, sends a datagram to the port of a bound socket
Deliver(s) ==
    /\ sockets[s] = "bound"
    /\ Len(deliveredTo) < MaxDeliveries
    /\ \E d \in ConcDatagrams :
          inbox' = [inbox EXCEPT
                      ![s] = Append(@, [id |-> Len(deliveredTo) + 1, data |-> d])]
    /\ deliveredTo' = Append(deliveredTo, s)
    /\ UNCHANGED <<calls, sockets, bridge, encoding, camera>>

\* data, _ = sock.recvfrom(reply_size): the first datagram queued on the
\* call's sock, or socket.timeout with none queued
CallRecvFrom(w) ==
    /\ calls[w].pc = "recvfrom"
    /\ LET s == calls[w].sock
       IN  IF inbox[s] # <<>>
           THEN /\ calls' = [calls EXCEPT
                               ![w].pc = "exit",
                               ![w].got = [some |-> TRUE,
                                           id |-> Head(inbox[s]).id,
                                           data |-> Head(inbox[s]).data]]
                /\ inbox' = [inbox EXCEPT ![s] = Tail(@)]
           ELSE /\ calls' = [calls EXCEPT ![w].pc = "exit"]
                /\ UNCHANGED inbox
    /\ UNCHANGED <<sockets, deliveredTo, bridge, encoding, camera>>

\* the with block is left: the socket is closed, what is queued on it is lost
CallExit(w) ==
    /\ calls[w].pc = "exit"
    /\ calls' = [calls EXCEPT ![w].pc = "done"]
    /\ sockets' = [sockets EXCEPT ![calls[w].sock] = "closed"]
    /\ inbox' = [inbox EXCEPT ![calls[w].sock] = <<>>]
    /\ UNCHANGED <<deliveredTo, bridge, encoding, camera>>

ConcNext ==
    \/ \E w \in Callers : CallSocket(w)
    \/ \E w \in Callers : CallSendTo(w)
    \/ \E s \in DOMAIN sockets : Deliver(s)
    \/ \E w \in Callers : CallRecvFrom(w)
    \/ \E w \in Callers : CallExit(w)

ConcSpec == ConcInit /\ [][ConcNext]_vars

(****************************************************************)
(* The encoding taken by itself: two requests and their frames.  *)
(****************************************************************)
EncInit ==
    /\ BridgeInit /\ memo = MemoOff
    /\ ConcurrentIdle /\ CameraIdle
    /\ reqs \in Payloads \X Payloads
    /\ frames = <<>>

\* command builds the frame of each of the two requests
EncodePair ==
    /\ frames = <<>>
    /\ frames' = <<command_frame(reqs[1]), command_frame(reqs[2])>>
    /\ UNCHANGED <<reqs, bridge, concurrent, camera>>

EncNext == EncodePair

EncSpec == EncInit /\ [][EncNext]_vars

(****************************************************************)
(* C14: different valid requests, different frames               *)
(****************************************************************)

\* a parameter within its field: an integer that fits a byte, a number that
\* is a float32 value
ValidByte(x) == x.t = "int" /\ x.v \in Byte
ValidAngle(x) == x.t \in {"int", "float"}

\* a request of one of the five kinds whose recipe parameters are present and
\* within their fields
ValidRequest(p) ==
    \/ CmdIs(p.cmd, "heartbeat")
    \/ CmdIs(p.cmd, "state_change") /\ ValidByte(p.params.mode)
    \/ /\ CmdIs(p.cmd, "axis")
       /\ ValidByte(p.params.joint_id) /\ ValidAngle(p.params.angle)
    \/ CmdIs(p.cmd, "gait") /\ ValidByte(p.params.gait_id)
    \/ CmdIs(p.cmd, "action") /\ ValidByte(p.params.action_id)

\* the angle in quarters
AngleValue(x) == IF x.t = "int" THEN 4 * x.v ELSE x.v

\* the same kind and the same value of every parameter of its recipe
SameRequest(p, q) ==
    /\ p.cmd = q.cmd
    /\ CmdIs(p.cmd, "state_change") => p.params.mode.v = q.params.mode.v
    /\ CmdIs(p.cmd, "axis") =>
          /\ p.params.joint_id.v = q.params.joint_id.v
          /\ AngleValue(p.params.angle) = AngleValue(q.params.angle)
    /\ CmdIs(p.cmd, "gait") => p.params.gait_id.v = q.params.gait_id.v
    /\ CmdIs(p.cmd, "action") => p.params.action_id.v = q.params.action_id.v

\* the value, in quarters, of the float32 in the 4 bytes b
QuartersOf(b) ==
    LET f == FloatAt(b, 0)
        m == Pow2(23) + f.man
        a == IF f.exp >= 148 THEN m * Pow2(f.exp - 148)
             ELSE m \div Pow2(148 - f.exp)
    IN  IF f.exp = 0 THEN 0 ELSE IF f.neg THEN -a ELSE a

\* the request a body stands for: the kind of its opcode, the parameters of
\* its bytes
BodyRequest(body) ==
    CASE body[1] = 1 -> [cmd |-> Cmd("heartbeat"), params |-> NoParams]
      [] body[1] = 2 ->
            [cmd |-> Cmd("state_change"),
             params |-> [NoParams EXCEPT !.mode = PV("int", body[2])]]
      [] body[1] = 3 ->
            [cmd |-> Cmd("axis"),
             params |-> [NoParams EXCEPT
                           !.joint_id = PV("int", body[2]),
                           !.angle = PV("float", QuartersOf(SubSeq(body, 3, 6)))]]
      [] body[1] = 4 ->
            [cmd |-> Cmd("gait"),
             params |-> [NoParams EXCEPT !.gait_id = PV("int", body[2])]]
      [] OTHER ->
            [cmd |-> Cmd("action"),
             params |-> [NoParams EXCEPT !.action_id = PV("int", body[2])]]

\* C14: two valid requests are both encoded, and their frames are equal only
\* if they are of the same kind with the same value of every recipe
\* parameter; the body of a frame determines the kind and the parameters, and
\* encoding those again gives the body back.
C14_Injective ==
    (frames # <<>> /\ ValidRequest(reqs[1]) /\ ValidRequest(reqs[2]))
        => /\ frames[1].ok /\ frames[2].ok
           /\ (frames[1].bytes = frames[2].bytes)
                 <=> SameRequest(reqs[1], reqs[2])
           /\ \A i \in 1..2 :
                 LET n == Len(frames[i].bytes)
                     body == SubSeq(frames[i].bytes, 4, n - 1)
                 IN  /\ SameRequest(BodyRequest(body), reqs[i])
                     /\ CommandBody(BodyRequest(body)).bytes = body

\* C14 witness: axis joint 3 angle 12.5 and axis joint 3 angle 0.25 have been
\* encoded; the frames differ in the angle bytes and the checksum only
C14_Witness ==
    /\ frames # <<>>
    /\ reqs[1] = [cmd |-> Cmd("axis"),
                  params |-> [NoParams EXCEPT !.joint_id = PV("int", 3),
                                              !.angle = PV("float", 50)]]
    /\ reqs[2] = [cmd |-> Cmd("axis"),
                  params |-> [NoParams EXCEPT !.joint_id = PV("int", 3),
                                              !.angle = PV("float", 1)]]
    /\ frames[1].bytes = <<165, 90, 6, 3, 3, 0, 0, 72, 65, 148>>
    /\ frames[2].bytes = <<165, 90, 6, 3, 3, 0, 0, 128, 62, 201>>

(****************************************************************)
(* C15: the phases of a request                                  *)
(****************************************************************)

\* where the request is: before it, building its frame, inside
\* send_udp_message, or answered
Phase ==
    CASE pc = "idle" -> "Idle"
      [] pc = "encode" -> "Encoding"
      [] pc = "done" -> "Terminal"
      [] OTHER -> "AwaitingReply"

\* how an answered request ended: 504 is the timeout, 200 the success carrying
\* what the reply was decoded to, anything else a failure
Terminal ==
    CASE response.code = 504 -> "TimedOut"
      [] response.code = 200 -> "Decoded"
      [] OTHER -> "Invalid"

\* the reply is shorter than the schema of the operation, or its trailing
\* byte is not the sum of the bytes before it
MalformedReply ==
    /\ ret.tag = "data"
    /\ \/ op \in {"get_state", "get_sensors"} /\ Len(ret.data) < WidthOf(op)
       \/ ChecksumFails(ret.data)

\* C15 (as claimed): a request of the three bridge operations sends nothing
\* before its frame is built, is answered only after send_udp_message has
\* returned, ends timed out exactly when no reply came, and ends Invalid,
\* never Decoded, when its reply is short or fails its checksum.
C15_StateMachine ==
    /\ (op = "command" /\ Phase \in {"Idle", "Encoding"}) => sends = 0
    /\ (op = "command" /\ sends > 0) => pkt # <<>>
    /\ (Phase # "Terminal") => response = NoResponse
    /\ (Answered /\ ret.tag = "none") => Terminal = "TimedOut"
    /\ (Answered /\ MalformedReply) => Terminal = "Invalid"

(****************************************************************)
(* C13: concurrent requests and their sockets                    *)
(****************************************************************)

\* the call of w holds its socket
InFlight(w) == calls[w].pc \in {"sendto", "recvfrom", "exit"}

\* C13: at any moment the calls in progress hold different sockets, each
\* created for the call; the datagram a call returns was delivered to the
\* call's own socket, and no other call returns it.
C13_OwnSocket ==
    \A w \in Callers :
        /\ InFlight(w) =>
              /\ sockets[calls[w].sock] # "closed"
              /\ \A v \in Callers \ {w} :
                    InFlight(v) => calls[v].sock # calls[w].sock
        /\ calls[w].got.some =>
              /\ deliveredTo[calls[w].got.id] = calls[w].sock
              /\ \A v \in Callers \ {w} :
                    calls[v].got.some => calls[v].got.id # calls[w].got.id

\* C13 witness: two calls are in progress on sockets 1 and 2, a datagram was
\* delivered to each socket; caller 1 has received the one of socket 1 while
\* the other still waits on socket 2
C13_Witness ==
    /\ calls[1].pc = "exit" /\ calls[1].sock = 1
    /\ calls[2].pc = "recvfrom" /\ calls[2].sock = 2
    /\ deliveredTo = <<2, 1>>
    /\ calls[1].got = [some |-> TRUE, id |-> 2, data |-> AckFrame]
    /\ inbox[2] = <<[id |-> 1, data |-> <<>>]>>

(****************************************************************)
(* The depth-camera driver.                                      *)
(****************************************************************)
NumHandlers == 2
MaxFrames == 2

Handlers == 1..NumHandlers

\* threading.Lock(): held by no thread; the listener's thread
Unlocked == -1
Listener == 0

\* the motion frames of one frameset, in the order the listener meets them
FrameSets == {<<>>, <<"accel">>, <<"gyro">>, <<"accel", "gyro">>}

NoSnapshot == [accelerometer |-> 0, gyroscope |-> 0]

\* after the module has been loaded: pipeline started, listener started,
\* the server running
CamInit ==
    /\ BridgeInit /\ memo = MemoOff
    /\ EncodingIdle /\ ConcurrentIdle
    /\ imu_data = [accel |-> 0, gyro |-> 0]
    /\ imu_lock = Unlocked
    /\ imu_running = TRUE
    /\ imu_thread = [pc |-> "loop", frames |-> <<>>]
    /\ requests = [h \in Handlers |-> [pc |-> "idle", data |-> NoSnapshot]]
    /\ main = [pc |-> "serving", run |-> 0]
    /\ pipeline = "started"
    /\ stamp = 0
    /\ stopCalls = 0
    /\ stoppedUnder = FALSE

\* variant of CanAcquire: the with statement does not wait for the lock
CanAcquireAlways(lock) == TRUE

\* with imu_lock: entered only while no thread holds the lock
CanAcquire(lock) == lock = Unlocked

\* while imu_running: into the body, or the end of the loop
ListenerLoop ==
    /\ imu_thread.pc = "loop"
    /\ imu_thread' = [imu_thread EXCEPT
                        !.pc = IF imu_running THEN "call" ELSE "exited"]
    /\ UNCHANGED <<imu_data, imu_lock, imu_running, requests, main, pipeline,
                   stamp, stopCalls, stoppedUnder, bridge, encoding, concurrent>>

\* frames = pipeline.wait_for_frames(): the call is made
ListenerCall ==
    /\ imu_thread.pc = "call"
    /\ imu_thread' = [imu_thread EXCEPT !.pc = "wait"]
    /\ stoppedUnder' = (stoppedUnder \/ pipeline = "stopped")
    /\ UNCHANGED <<imu_data, imu_lock, imu_running, requests, main, pipeline,
                   stamp, stopCalls, bridge, encoding, concurrent>>

\* pipeline.wait_for_frames() returns a frameset
WaitReturns ==
    /\ imu_thread.pc = "wait"
    /\ pipeline = "started"
    /\ \E fs \in FrameSets :
          /\ fs # <<>> => stamp < MaxFrames
          /\ imu_thread' = [pc |-> "frames", frames |-> fs]
          /\ stamp' = IF fs = <<>> THEN stamp ELSE stamp + 1
    /\ UNCHANGED <<imu_data, imu_lock, imu_running, requests, main, pipeline,
                   stopCalls, stoppedUnder, bridge, encoding, concurrent>>

\* pipeline.wait_for_frames() raises (no frame within its timeout, or the
\* pipeline is stopped): nothing catches it and the thread ends
WaitRaises ==
    /\ imu_thread.pc = "wait"
    /\ imu_thread' = [imu_thread EXCEPT !.pc = "exited"]
    /\ UNCHANGED <<imu_data, imu_lock, imu_running, requests, main, pipeline,
                   stamp, stopCalls, stoppedUnder, bridge, encoding, concurrent>>

\* for f in frames: the next motion frame enters with imu_lock; past the
\* last frame the listener sleeps and tests imu_running again
ListenerNextFrame ==
    /\ imu_thread.pc = "frames"
    /\ IF imu_thread.frames = <<>>
       THEN /\ imu_thread' = [imu_thread EXCEPT !.pc = "loop"]
            /\ UNCHANGED imu_lock
       ELSE /\ CanAcquire(imu_lock)
            /\ imu_lock' = Listener
            /\ imu_thread' = [imu_thread EXCEPT !.pc = "write"]
    /\ UNCHANGED <<imu_data, imu_running, requests, main, pipeline, stamp,
                   stopCalls, stoppedUnder, bridge, encoding, concurrent>>

\* imu_data["accel"] = ... or imu_data["gyro"] = ..., and the with block ends
ListenerWrite ==
    /\ imu_thread.pc = "write"
    /\ imu_data' = [imu_data EXCEPT ![Head(imu_thread.frames)] = stamp]
    /\ imu_lock' = Unlocked
    /\ imu_thread' = [pc |-> "frames", frames |-> Tail(imu_thread.frames)]
    /\ UNCHANGED <<imu_running, requests, main, pipeline, stamp, stopCalls,
                   stoppedUnder, bridge, encoding, concurrent>>

\* a request for /imu arrives while the server runs (threaded=True: each on a
\* thread of its own)
ImuBegin(h) ==
    /\ main.pc = "serving"
    /\ requests[h].pc = "idle"
    /\ requests' = [requests EXCEPT ![h] = [pc |-> "acquire", data |-> NoSnapshot]]
    /\ UNCHANGED <<imu_data, imu_lock, imu_running, imu_thread, main, pipeline,
                   stamp, stopCalls, stoppedUnder, bridge, encoding, concurrent>>

\* with imu_lock:
ImuAcquire(h) ==
    /\ requests[h].pc = "acquire"
    /\ CanAcquire(imu_lock)
    /\ imu_lock' = h
    /\ requests' = [requests EXCEPT ![h].pc = "accel"]
    /\ UNCHANGED <<imu_data, imu_running, imu_thread, main, pipeline, stamp,
                   stopCalls, stoppedUnder, bridge, encoding, concurrent>>

\* "accelerometer": imu_data.get("accel")
ImuReadAccel(h) ==
    /\ requests[h].pc = "accel"
    /\ requests' = [requests EXCEPT ![h].pc = "gyro",
                                    ![h].data.accelerometer = imu_data.accel]
    /\ UNCHANGED <<imu_data, imu_lock, imu_running, imu_thread, main, pipeline,
                   stamp, stopCalls, stoppedUnder, bridge, encoding, concurrent>>

\* "gyroscope": imu_data.get("gyro"), and the with block ends
ImuReadGyro(h) ==
    /\ requests[h].pc = "gyro"
    /\ requests' = [requests EXCEPT ![h].pc = "respond",
                                    ![h].data.gyroscope = imu_data.gyro]
    /\ imu_lock' = Unlocked
    /\ UNCHANGED <<imu_data, imu_running, imu_thread, main, pipeline, stamp,
                   stopCalls, stoppedUnder, bridge, encoding, concurrent>>

\* return jsonify(data)
ImuRespond(h) ==
    /\ requests[h].pc = "respond"
    /\ requests' = [requests EXCEPT ![h].pc = "idle"]
    /\ UNCHANGED <<imu_data, imu_lock, imu_running, imu_thread, main, pipeline,
                   stamp, stopCalls, stoppedUnder, bridge, encoding, concurrent>>

\* app.run returns or raises: the finally block calls cleanup()
ServerExit ==
    /\ main.pc = "serving"
    /\ main' = [pc |-> "flag", run |-> 1]
    /\ UNCHANGED <<imu_data, imu_lock, imu_running, imu_thread, requests,
                   pipeline, stamp, stopCalls, stoppedUnder, bridge, encoding,
                   concurrent>>

\* cleanup: imu_running = False
CleanupFlag ==
    /\ main.pc = "flag"
    /\ imu_running' = FALSE
    /\ main' = [main EXCEPT !.pc = "join"]
    /\ UNCHANGED <<imu_data, imu_lock, imu_thread, requests, pipeline, stamp,
                   stopCalls, stoppedUnder, bridge, encoding, concurrent>>

\* cleanup: imu_thread.join(timeout=1) returns, the thread ended or the
\* second elapsed
CleanupJoin ==
    /\ main.pc = "join"
    /\ main' = [main EXCEPT !.pc = "stop"]
    /\ UNCHANGED <<imu_data, imu_lock, imu_running, imu_thread, requests,
                   pipeline, stamp, stopCalls, stoppedUnder, bridge, encoding,
                   concurrent>>

\* cleanup: pipeline.stop(); after the run of the finally block the
\* interpreter exits and runs cleanup again as the atexit hook
CleanupStop ==
    /\ main.pc = "stop"
    /\ pipeline' = "stopped"
    /\ stopCalls' = stopCalls + 1
    /\ main' = IF main.run = 1 THEN [pc |-> "flag", run |-> 2]
               ELSE [pc |-> "ended", run |-> 2]
    /\ UNCHANGED <<imu_data, imu_lock, imu_running, imu_thread, requests,
                   stamp, stoppedUnder, bridge, encoding, concurrent>>

CamNext ==
    \/ ListenerLoop
    \/ ListenerCall
    \/ WaitReturns
    \/ WaitRaises
    \/ ListenerNextFrame
    \/ ListenerWrite
    \/ \E h \in Handlers : ImuBegin(h)
    \/ \E h \in Handlers : ImuAcquire(h)
    \/ \E h \in Handlers : ImuReadAccel(h)
    \/ \E h \in Handlers : ImuReadGyro(h)
    \/ \E h \in Handlers : ImuRespond(h)
    \/ ServerExit
    \/ CleanupFlag
    \/ CleanupJoin
    \/ CleanupStop

CamSpec == CamInit /\ [][CamNext]_vars

(****************************************************************)
(* C19: imu_data is accessed under imu_lock                      *)
(****************************************************************)

\* the threads inside an access of imu_data
Accessing ==
    {h \in Handlers : requests[h].pc \in {"accel", "gyro"}}
    \cup (IF imu_thread.pc = "write" THEN {Listener} ELSE {})

\* C19: a thread inside a read or a write of imu_data holds imu_lock, so at
\* most one thread is inside one at a time; and what a /imu handler has read
\* of accel is still the value of imu_data when it reads gyro, so its
\* snapshot is imu_data as it was at one instant, and that is what it returns.
C19_UnderLock ==
    /\ \A t \in Accessing : imu_lock = t
    /\ Cardinality(Accessing) <= 1
    /\ \A h \in Handlers :
          /\ requests[h].pc = "gyro" =>
                requests[h].data.accelerometer = imu_data.accel
          /\ requests[h].pc = "respond" =>
                /\ requests[h].data.accelerometer <= imu_data.accel
                /\ requests[h].data.gyroscope <= imu_data.gyro

\* C19 witness: a handler holds the lock between its two reads, having read
\* the accel of frameset 1, while the listener, with the gyro frame of the
\* same frameset in hand, waits for the lock and the other handler too
C19_Witness ==
    /\ requests[1].pc = "gyro" /\ imu_lock = 1
    /\ requests[1].data.accelerometer = 1 /\ imu_data = [accel |-> 1, gyro |-> 0]
    /\ imu_thread = [pc |-> "frames", frames |-> <<"gyro">>]
    /\ requests[2].pc = "acquire"

(****************************************************************)
(* C20: the shutdown of the camera driver                        *)
(****************************************************************)

\* C20 (as claimed): pipeline.stop() is invoked at most once, the pipeline is
\* stopped only when the listener has left its loop, and the listener never
\* calls wait_for_frames() on a stopped pipeline.
C20_StopOnce ==
    /\ stopCalls <= 1
    /\ pipeline = "stopped" => imu_thread.pc = "exited"
    /\ ~stoppedUnder
=============================================================================
